---- MODULE Spec2Model ----
(***************************************************************************)
(* Model of ProductSearchEngine (src/utils/search_engine.py): the index    *)
(* cache clusters_indexes, the cluster / source partitioning, the FAISS    *)
(* inner-product search and the post-processing of get_similar_products    *)
(* and get_similar_products_with_details.                                  *)
(*                                                                         *)
(* Scores are integers (inner products of integer vectors, in hundredths). *)
(* A serialized embedding is a sequence of one-character strings.          *)
(* A nullable cell (pandas NaN / None) is the empty sequence NaN, a        *)
(* present cell x is <<x>>.                                                *)
(***************************************************************************)
EXTENDS Integers, Sequences, FiniteSets, TLC

\* ------------------------------------------------------------------ bounds
\* num_similar_products ranges over 1..MaxCount.
MaxCount == 3
\* product ids asked for range over 1..MaxPid (some are in no table).
MaxPid == 3

\* ---------------------------------------------------------------- helpers
NaN == <<>>
Some(x) == <<x>>
notna(c) == c # NaN

RECURSIVE SeqSum(_)
SeqSum(s) == IF s = <<>> THEN 0 ELSE Head(s) + SeqSum(Tail(s))

Range(s) == {s[i] : i \in 1..Len(s)}

\* a function on 1..n as the sequence of its values
AsSeq(f) == f \o <<>>

\* the positions 1..n in sorted order, for a strict total order on them
\* given as the matrix before[i][j] (position i sorts before position j).
Permutation(before) ==
    LET n == Len(before)
        rank == AsSeq([i \in 1..n |-> Cardinality({j \in 1..n : before[j][i]}) + 1])
    IN AsSeq([p \in 1..n |-> CHOOSE i \in 1..n : rank[i] = p])

\* the rows at the given positions, in that order
Take(rows, positions) == AsSeq([p \in 1..Len(positions) |-> rows[positions[p]]])

\* a head that cuts nothing
head_all(rows, n) == rows

\* the first n rows (DataFrame.head(n), n >= 0)
head(rows, n) == SubSeq(rows, 1, IF n < Len(rows) THEN n ELSE Len(rows))

\* ------------------------------------------------- vector (de)serialization
DigitChars == <<"0", "1", "2", "3", "4", "5", "6", "7", "8", "9">>
IsDigit(c) == \E i \in 1..10 : DigitChars[i] = c
DigitVal(c) == (CHOOSE i \in 1..10 : DigitChars[i] = c) - 1

\* decimal text of a natural number (how the upstream writer prints a
\* component of the stored vector).
RECURSIVE NumStr(_)
NumStr(n) == IF n < 10 THEN <<DigitChars[n + 1]>>
             ELSE NumStr(n \div 10) \o <<DigitChars[(n % 10) + 1]>>

\* a two-component vector as stored: "[a b]", or numpy's wrapped form
\* "[a\n b]" when wrap is TRUE.
EmbeddingText(a, b, wrap) ==
    <<"[">> \o NumStr(a) \o (IF wrap THEN <<"\n", " ">> ELSE <<" ">>)
            \o NumStr(b) \o <<"]">>

\* re.sub(r'[\[\]\n]', '', embedding)
StripDecoration(text) ==
    LET Keep(c) == c \notin {"[", "]", "\n"} IN SelectSeq(text, Keep)

\* np.fromstring(text, sep=' '): whitespace-separated decimal tokens; parsing
\* stops at the first character that fits no number (the values read so far
\* are returned).  acc is the value of the token being read, NaN between
\* tokens.
RECURSIVE FromString(_, _, _)
FromString(text, acc, out) ==
    IF text = <<>> THEN (IF notna(acc) THEN Append(out, acc[1]) ELSE out)
    ELSE LET c == Head(text) IN
         IF c = " "
         THEN FromString(Tail(text), NaN,
                         IF notna(acc) THEN Append(out, acc[1]) ELSE out)
         ELSE IF IsDigit(c)
         THEN FromString(Tail(text),
                         Some((IF notna(acc) THEN acc[1] * 10 ELSE 0) + DigitVal(c)),
                         out)
         ELSE (IF notna(acc) THEN Append(out, acc[1]) ELSE out)

\* the vector of one stored embedding
\* (np.fromstring(re.sub(r'[\[\]\n]', '', embedding), sep=' ')).
ParseEmbedding(text) == FromString(StripDecoration(text), NaN, <<>>)

\* ------------------------------------------------------------ FAISS index
\* distance FAISS reports in a result slot it could not fill (-FLT_MAX for an
\* inner-product index); the label of such a slot is -1.
NegFltMax == -2147483647

Dot(u, v) == SeqSum(AsSeq([i \in 1..Len(u) |-> u[i] * v[i]]))

\* np.array([...]) of the parsed vectors is a matrix only when all rows have
\* one length.
IsMatrix(vectors) == \A i \in 1..Len(vectors) : Len(vectors[i]) = Len(vectors[1])

\* index = faiss.IndexFlatIP(cluster_embeddings.shape[1]); index.add(...)
IndexFlatIP(vectors) == [d |-> Len(vectors[1]), xb |-> vectors]

\* the two steps of a build as a session takes them: faiss.IndexFlatIP(d)
\* is an index without vectors, index.add(vectors) stores them after those
\* it holds.
new_index(d) == [d |-> d, xb |-> <<>>]
index_add(index, vectors) == [index EXCEPT !.xb = @ \o vectors]

\* D, I = index.search(query_vector, k): the k stored vectors of highest inner
\* product, best first, as <<label, distance>> slots with 0-based labels;
\* slots beyond ntotal are <<-1, -FLT_MAX>>.  Equal distances are ordered by
\* position, ascending or descending as tie says (FAISS leaves it open).
search(index, query_vector, k, tie) ==
    LET n == Len(index.xb)
        dist == AsSeq([i \in 1..n |-> Dot(index.xb[i], query_vector)])
        before == AsSeq([i \in 1..n |-> AsSeq([j \in 1..n |->
                      \/ dist[i] > dist[j]
                      \/ dist[i] = dist[j] /\ (IF tie = "low" THEN i < j ELSE i > j)])])
        ranked == Permutation(before)
    IN AsSeq([s \in 1..k |->
                 IF s <= n THEN [label |-> ranked[s] - 1, dist |-> dist[ranked[s]]]
                 ELSE [label |-> -1, dist |-> NegFltMax]])

\* df.iloc[i]: 0-based, a negative position counts from the end.
iloc(rows, i) == IF i < 0 THEN rows[Len(rows) + 1 + i] ELSE rows[i + 1]
InBounds(rows, i) == -Len(rows) <= i /\ i < Len(rows)

\* a lookup that compares the source and forgets the cluster id
get_cached_index_by_source(cache, cluster_id, source_cluster) ==
    LET hits == {i \in 1..Len(cache) : cache[i].source = source_cluster}
    IN IF hits = {} THEN NaN
       ELSE Some(cache[CHOOSE i \in hits : \A j \in hits : i <= j].index)

\* a lookup that never finds an entry
get_cached_index_miss(cache, cluster_id, source_cluster) == NaN

\* ------------------------------------------------------------ index cache
\* get_cached_index: the index of the first entry with this cluster id and
\* source, Some(index), or NaN (None) when there is none.
get_cached_index(cache, cluster_id, source_cluster) ==
    LET hits == {i \in 1..Len(cache) : /\ cache[i].cluster_id = cluster_id
                                        /\ cache[i].source = source_cluster}
    IN IF hits = {} THEN NaN
       ELSE Some(cache[CHOOSE i \in hits : \A j \in hits : i <= j].index)

\* ---------------------------------------------------- cluster and sources
\* get_product_cluster: (df_clusters, product, cluster_id), found = FALSE for
\* (None, None, None).
get_product_cluster(df, product_id) ==
    LET product == SelectSeq(df, LAMBDA r : r.product_id = product_id) IN
    IF product = <<>> THEN [found |-> FALSE, df_clusters |-> <<>>, cluster_id |-> 0]
    ELSE LET cluster_id == product[1].cluster_id IN
         [found |-> TRUE,
          df_clusters |-> SelectSeq(df, LAMBDA r : r.cluster_id = cluster_id),
          cluster_id |-> cluster_id]

\* the store names, in the sorted order in which groupby yields its keys
DataSources == <<"A", "B">>

\* df.groupby('data_source').groups: the sources present, in sorted order
get_clusters_group_by_source(df) ==
    SelectSeq(DataSources, LAMBDA s : \E i \in 1..Len(df) : df[i].data_source = s)

\* df_by_source.get_group(cluster_source)
get_group(df, cluster_source) == SelectSeq(df, LAMBDA r : r.data_source = cluster_source)

\* cluster_embeddings of one source partition (lines 87-90)
cluster_embeddings(source_product_cluster) ==
    AsSeq([i \in 1..Len(source_product_cluster) |->
              ParseEmbedding(source_product_cluster[i].normalized_embeddings)])

\* an insertion that puts the new entry in front of the list
cache_prepend(cache, entry) == <<entry>> \o cache

\* self.clusters_indexes.append({...}) (lines 109-113)
cache_append(cache, entry) == Append(cache, entry)

\* the for loop of get_cluster_group_by_source over the remaining sources:
\* a cached index is reused, a missing one is built from the partition's
\* vectors and appended to the cache.  acc = [ok, index_group, cache, built];
\* ok turns FALSE when the partition's vectors form no matrix (the exception
\* leaves the loop, keeping what earlier iterations appended); built counts
\* the indexes this call constructed.
RECURSIVE index_group_loop(_, _, _, _)
index_group_loop(sources, product_cluster, cluster_id, acc) ==
    IF sources = <<>> THEN acc
    ELSE LET cluster_source == Head(sources)
             source_product_cluster == get_group(product_cluster, cluster_source)
             embeddings == cluster_embeddings(source_product_cluster)
             cached == get_cached_index(acc.cache, cluster_id, cluster_source)
         IN IF ~IsMatrix(embeddings) THEN [acc EXCEPT !.ok = FALSE]
            ELSE IF notna(cached)
            THEN index_group_loop(Tail(sources), product_cluster, cluster_id,
                    [acc EXCEPT !.index_group = Append(@,
                        [index |-> cached[1], source |-> cluster_source,
                         data |-> source_product_cluster])])
            ELSE LET index == IndexFlatIP(embeddings) IN
                 index_group_loop(Tail(sources), product_cluster, cluster_id,
                    [acc EXCEPT !.index_group = Append(@,
                        [index |-> index, source |-> cluster_source,
                         data |-> source_product_cluster]),
                                !.cache = cache_append(@,
                        [source |-> cluster_source, cluster_id |-> cluster_id,
                         index |-> index]),
                                !.built = @ + 1])

\* get_cluster_group_by_source: found = FALSE for (None, None); otherwise the
\* index group of the product's cluster and the cache as the loop left it.
get_cluster_group_by_source(cache, df, product_id) ==
    LET pc == get_product_cluster(df, product_id) IN
    IF ~pc.found
    THEN [found |-> FALSE, ok |-> TRUE, index_group |-> <<>>, cache |-> cache, built |-> 0]
    ELSE LET r == index_group_loop(get_clusters_group_by_source(pc.df_clusters),
                                   pc.df_clusters, pc.cluster_id,
                                   [ok |-> TRUE, index_group |-> <<>>, cache |-> cache,
                                    built |-> 0])
         IN [found |-> TRUE, ok |-> r.ok, index_group |-> r.index_group,
             cache |-> r.cache, built |-> r.built]

\* ----------------------------------------------------- get_similar_products
\* similar_products.sort_values(by='score', ascending=False): one key, so the
\* default (unstable) sort; equal scores are ordered by position as tie says.
sort_by_score(rows, tie) ==
    LET n == Len(rows)
        before == AsSeq([i \in 1..n |-> AsSeq([j \in 1..n |->
                      \/ rows[i].score > rows[j].score
                      \/ /\ rows[i].score = rows[j].score
                         /\ (IF tie = "low" THEN i < j ELSE i > j)])])
    IN Take(rows, Permutation(before))

\* the query product left among the rows
exclude_query_skipped(rows, product_id) == rows

\* similar_products[similar_products['product_id'] != product_id]
exclude_query(rows, product_id) == SelectSeq(rows, LAMBDA r : r.product_id # product_id)

\* a threshold that drops the rows scoring exactly min_score
filter_min_score_strict(rows, min_score) == SelectSeq(rows, LAMBDA r : r.score > min_score)

\* similar_products[similar_products['score'] >= min_score]
filter_min_score(rows, min_score) == SelectSeq(rows, LAMBDA r : r.score >= min_score)

\* the query vector of lines 144-149
query_vector(df, product_id) ==
    ParseEmbedding(SelectSeq(df, LAMBDA r : r.product_id = product_id)[1].normalized_embeddings)

\* lines 155-171 for the slots DI = (D, I) of one search: the partition rows
\* at the labels with their scores, without the query product and the rows
\* under min_score, best first, cut to num_similar_products.
post_process(DI, data, product_id, num_similar_products, min_score, tie) ==
    LET similar_products ==
            AsSeq([s \in 1..Len(DI) |-> LET row == iloc(data, DI[s].label) IN
                                       [product_id |-> row.product_id,
                                        cluster_id |-> row.cluster_id,
                                        data_source |-> row.data_source,
                                        score |-> DI[s].dist]])
    IN head(sort_by_score(filter_min_score(exclude_query(similar_products, product_id),
                                           min_score), tie),
            num_similar_products)

\* the iteration with k = num_similar_products (no extra slot for the query
\* product)
similar_in_cluster_no_overfetch(cluster, df, product_id, num_similar_products, min_score, tie) ==
    LET q == query_vector(df, product_id)
        k == num_similar_products
    IN IF Len(q) # cluster.index.d THEN [ok |-> FALSE, rows |-> <<>>]
       ELSE LET DI == search(cluster.index, q, k, tie) IN
            IF \E s \in 1..k : ~InBounds(cluster.data, DI[s].label)
            THEN [ok |-> FALSE, rows |-> <<>>]
            ELSE [ok |-> TRUE,
                  rows |-> post_process(DI, cluster.data, product_id,
                                        num_similar_products, min_score, tie)]

\* one iteration of the for loop of get_similar_products (lines 141-172):
\* [ok, rows].  ok is FALSE when index.search rejects the query (another
\* dimension than the index) or iloc a label (no position of the partition).
similar_in_cluster(cluster, df, product_id, num_similar_products, min_score, tie) ==
    LET q == query_vector(df, product_id)
        k == num_similar_products + 1
    IN IF Len(q) # cluster.index.d THEN [ok |-> FALSE, rows |-> <<>>]
       ELSE LET DI == search(cluster.index, q, k, tie) IN
            IF \E s \in 1..k : ~InBounds(cluster.data, DI[s].label)
            THEN [ok |-> FALSE, rows |-> <<>>]
            ELSE [ok |-> TRUE,
                  rows |-> post_process(DI, cluster.data, product_id,
                                        num_similar_products, min_score, tie)]

\* the for loop over cluster_groups: pd.concat of the per-source rows, in
\* group order; ok is FALSE when an iteration raised.
RECURSIVE products_found_loop(_, _, _, _, _, _)
products_found_loop(cluster_groups, df, product_id, num_similar_products, min_score, tie) ==
    IF cluster_groups = <<>> THEN [ok |-> TRUE, rows |-> <<>>]
    ELSE LET first == similar_in_cluster(Head(cluster_groups), df, product_id,
                                         num_similar_products, min_score, tie)
         IN IF ~first.ok THEN first
            ELSE LET rest == products_found_loop(Tail(cluster_groups), df, product_id,
                                                 num_similar_products, min_score, tie)
                 IN [ok |-> rest.ok, rows |-> first.rows \o rest.rows]

\* a search that answers an unknown product with an empty DataFrame
get_similar_products_empty(cache, df, product_id, num_similar_products, min_score, tie) ==
    LET g == get_cluster_group_by_source(cache, df, product_id) IN
    IF ~g.found \/ ~g.ok
    THEN [kind |-> "frame", rows |-> <<>>, cache |-> g.cache, built |-> g.built]
    ELSE LET found == products_found_loop(g.index_group, df, product_id,
                                          num_similar_products, min_score, tie)
         IN [kind |-> "frame", rows |-> found.rows, cache |-> g.cache, built |-> g.built]

\* get_similar_products on an engine whose cache is cache.  kind is "none"
\* (None), "frame" (a DataFrame of rows, possibly empty) or "error" (an
\* exception left the call); cache is the cache after the call and built the
\* number of indexes the call constructed.
get_similar_products(cache, df, product_id, num_similar_products, min_score, tie) ==
    LET g == get_cluster_group_by_source(cache, df, product_id) IN
    IF ~g.found THEN [kind |-> "none", rows |-> <<>>, cache |-> g.cache, built |-> 0]
    ELSE IF ~g.ok
    THEN [kind |-> "error", rows |-> <<>>, cache |-> g.cache, built |-> g.built]
    ELSE LET found == products_found_loop(g.index_group, df, product_id,
                                          num_similar_products, min_score, tie)
         IN IF ~found.ok
            THEN [kind |-> "error", rows |-> <<>>, cache |-> g.cache, built |-> g.built]
            ELSE [kind |-> "frame", rows |-> found.rows, cache |-> g.cache,
                  built |-> g.built]

\* ----------------------------------------- get_similar_products_with_details
\* pd.merge(products_found, df_products[...], on='product_id', how='left')
\* followed by the projection to final_columns: every found row, in order,
\* once per catalog row of its product id, or once with NaN details when the
\* catalog has none.  data_source and cluster_id stay those of the found row.
RECURSIVE merge_left(_, _)
merge_left(products_found, df_products) ==
    IF products_found = <<>> THEN <<>>
    ELSE LET l == Head(products_found)
             matches == SelectSeq(df_products, LAMBDA r : r.product_id = l.product_id)
             joined(name, price) ==
                 [product_id |-> l.product_id, product_name |-> name,
                  sale_price |-> price, data_source |-> l.data_source,
                  cluster_id |-> l.cluster_id, score |-> l.score]
         IN (IF matches = <<>> THEN <<joined(NaN, NaN)>>
             ELSE AsSeq([i \in 1..Len(matches) |->
                            joined(matches[i].product_name, matches[i].sale_price)]))
            \o merge_left(Tail(products_found), df_products)

\* a price filter that keeps the rows priced like the query product
filter_best_price_or_equal(rows, product_price) ==
    SelectSeq(rows, LAMBDA r : /\ notna(r.sale_price) /\ notna(product_price)
                               /\ r.sale_price[1] <= product_price[1])

\* df_products_details[df_products_details['sale_price'] < product_price]
\* (a comparison with NaN on either side is False)
filter_best_price(rows, product_price) ==
    SelectSeq(rows, LAMBDA r : /\ notna(r.sale_price) /\ notna(product_price)
                               /\ r.sale_price[1] < product_price[1])

\* the cell of a sort column
Cell(row, key) == IF key = "score" THEN Some(row.score) ELSE row.sale_price

\* order of two cells of one sort key: -1 first before second, 0 equal,
\* 1 after; NaN sorts last whatever the direction (na_position='last').
KeyCmp(a, b, asc) ==
    IF a = NaN /\ b = NaN THEN 0
    ELSE IF a = NaN THEN 1
    ELSE IF b = NaN THEN -1
    ELSE IF a[1] = b[1] THEN 0
    ELSE IF (a[1] < b[1]) = asc THEN -1 ELSE 1

RECURSIVE LexCmp(_, _, _, _)
LexCmp(r1, r2, by, ascending) ==
    IF by = <<>> THEN 0
    ELSE LET c == KeyCmp(Cell(r1, Head(by)), Cell(r2, Head(by)), Head(ascending)) IN
         IF c # 0 THEN c ELSE LexCmp(r1, r2, Tail(by), Tail(ascending))

\* a sort that orders by the first key only
sort_values_first_key(rows, by, ascending, tie) ==
    LET n == Len(rows)
        before == AsSeq([i \in 1..n |-> AsSeq([j \in 1..n |->
                      LET c == KeyCmp(Cell(rows[i], by[1]), Cell(rows[j], by[1]),
                                      ascending[1])
                      IN c < 0 \/ (c = 0 /\ i < j)])])
    IN Take(rows, Permutation(before))

\* df.sort_values(by=sort, ascending=ascending) for lists of one length:
\* several keys are sorted lexicographically and stably; a single key uses
\* the default (unstable) sort, equal keys ordered by position as tie says.
sort_values(rows, by, ascending, tie) ==
    LET n == Len(rows)
        before == AsSeq([i \in 1..n |-> AsSeq([j \in 1..n |->
                      LET c == LexCmp(rows[i], rows[j], by, ascending) IN
                      \/ c < 0
                      \/ c = 0 /\ (IF Len(by) > 1 \/ tie = "low" THEN i < j ELSE i > j)])])
    IN Take(rows, Permutation(before))

\* str.strip(): without leading and trailing whitespace
IsSpace(c) == c \in {" ", "\t", "\n"}
RECURSIVE lstrip(_)
lstrip(text) == IF text # <<>> /\ IsSpace(Head(text)) THEN lstrip(Tail(text)) ELSE text
RECURSIVE rstrip(_)
rstrip(text) == IF text # <<>> /\ IsSpace(text[Len(text)])
                THEN rstrip(SubSeq(text, 1, Len(text) - 1)) ELSE text
strip(text) == rstrip(lstrip(text))

\* a validity filter that tests the name without stripping it
filter_valid_unstripped(rows) ==
    SelectSeq(rows, LAMBDA r : /\ notna(r.product_name)
                               /\ r.product_name[1] # <<>>
                               /\ notna(r.sale_price)
                               /\ r.sale_price[1] > 0)

\* lines 262-274: rows with a name that is neither missing, empty nor blank
\* and a price that is present and positive.
filter_valid(rows) ==
    SelectSeq(rows, LAMBDA r : /\ notna(r.product_name)
                               /\ r.product_name[1] # <<>>
                               /\ strip(r.product_name[1]) # <<>>
                               /\ notna(r.sale_price)
                               /\ r.sale_price[1] > 0)

\* lines 218-276 on a non-empty products_found
details_of_found(products_found, search_product, df_products, only_best_price, sort, ascending, tie) ==
    LET df_products_details == merge_left(products_found, df_products)
        priced == IF only_best_price
                  THEN filter_best_price(df_products_details, search_product[1].sale_price)
                  ELSE df_products_details
    IN IF only_best_price /\ priced = <<>> THEN [kind |-> "frame", rows |-> <<>>]
       ELSE IF Len(sort) # Len(ascending) THEN [kind |-> "error", rows |-> <<>>]
       ELSE [kind |-> "frame",
             rows |-> filter_valid(sort_values(priced, sort, ascending, tie))]

\* a wrapper that hands on the None of get_similar_products
get_similar_products_with_details_none(cache, df_emb, df_prod, product_id, num_similar_products, min_score, only_best_price, sort, ascending, tie) ==
    LET search_product == SelectSeq(df_prod, LAMBDA r : r.product_id = product_id) IN
    IF search_product = <<>>
    THEN [kind |-> "none", rows |-> <<>>, cache |-> cache, built |-> 0]
    ELSE LET products_found == get_similar_products(cache, df_emb, product_id,
                                                    num_similar_products, min_score, tie)
         IN IF products_found.kind # "frame" THEN products_found
            ELSE IF products_found.rows = <<>>
            THEN [kind |-> "frame", rows |-> <<>>, cache |-> products_found.cache,
                  built |-> products_found.built]
            ELSE LET d == details_of_found(products_found.rows, search_product, df_prod,
                                           only_best_price, sort, ascending, tie)
                 IN [kind |-> d.kind, rows |-> d.rows, cache |-> products_found.cache,
                     built |-> products_found.built]

\* a wrapper that searches first and looks the product up in the catalog
\* afterwards
get_similar_products_with_details_search_first(cache, df_emb, df_prod, product_id, num_similar_products, min_score, only_best_price, sort, ascending, tie) ==
    LET search_product == SelectSeq(df_prod, LAMBDA r : r.product_id = product_id)
        products_found == get_similar_products(cache, df_emb, product_id,
                                               num_similar_products, min_score, tie)
    IN IF search_product = <<>>
       THEN [kind |-> "none", rows |-> <<>>, cache |-> products_found.cache,
             built |-> products_found.built]
       ELSE IF products_found.kind = "error" THEN products_found
       ELSE IF products_found.kind = "none" \/ products_found.rows = <<>>
       THEN [kind |-> "frame", rows |-> <<>>, cache |-> products_found.cache,
             built |-> products_found.built]
       ELSE LET d == details_of_found(products_found.rows, search_product, df_prod,
                                      only_best_price, sort, ascending, tie)
            IN [kind |-> d.kind, rows |-> d.rows, cache |-> products_found.cache,
                built |-> products_found.built]

\* get_similar_products_with_details on an engine whose cache is cache; the
\* result is as for get_similar_products.
get_similar_products_with_details(cache, df_emb, df_prod, product_id, num_similar_products, min_score, only_best_price, sort, ascending, tie) ==
    LET search_product == SelectSeq(df_prod, LAMBDA r : r.product_id = product_id) IN
    IF search_product = <<>>
    THEN [kind |-> "none", rows |-> <<>>, cache |-> cache, built |-> 0]
    ELSE LET products_found == get_similar_products(cache, df_emb, product_id,
                                                    num_similar_products, min_score, tie)
         IN IF products_found.kind = "error" THEN products_found
            ELSE IF products_found.kind = "none" \/ products_found.rows = <<>>
            THEN [kind |-> "frame", rows |-> <<>>, cache |-> products_found.cache,
                  built |-> products_found.built]
            ELSE LET d == details_of_found(products_found.rows, search_product, df_prod,
                                           only_best_price, sort, ascending, tie)
                 IN [kind |-> d.kind, rows |-> d.rows, cache |-> products_found.cache,
                     built |-> products_found.built]

\* ------------------------------------------------------------ the snapshots
\* Within a table every product id occurs once (one embedding per product,
\* one catalog row per product).
EmbRow(product_id, cluster_id, data_source, a, b, wrap) ==
    [product_id |-> product_id, cluster_id |-> cluster_id, data_source |-> data_source,
     normalized_embeddings |-> EmbeddingText(a, b, wrap)]

ProdRow(product_id, product_name, sale_price, data_source) ==
    [product_id |-> product_id, product_name |-> product_name,
     sale_price |-> sale_price, data_source |-> data_source]

TV == Some(<<"T", "V">>)

\* One cluster of eight products; against product 1 source A scores 90, 80,
\* 70, 60, 40 and source B scores 95, 30; product 1 scores 125 against
\* itself.  Product 2 has no catalog row, product 3 is in neither table.
ScenarioEmbeddings ==
    << EmbRow(9, 1, "A", 4, 0, FALSE), EmbRow(4, 1, "A", 9, 0, FALSE),
       EmbRow(2, 1, "B", 9, 1, TRUE),  EmbRow(1, 1, "A", 10, 5, TRUE),
       EmbRow(6, 1, "A", 7, 0, FALSE), EmbRow(8, 1, "B", 3, 0, FALSE),
       EmbRow(5, 1, "A", 8, 0, FALSE), EmbRow(7, 1, "A", 6, 0, TRUE) >>

ScenarioProducts ==
    << ProdRow(1, TV, Some(100), "A"), ProdRow(4, TV, Some(90), "A"),
       ProdRow(5, TV, Some(100), "A"), ProdRow(6, TV, Some(-5), "A"),
       ProdRow(7, NaN, Some(80), "A"), ProdRow(9, TV, Some(0), "A"),
       ProdRow(8, TV, NaN, "B") >>

\* Two clusters.  In cluster 1 products 1 and 5 have one vector, products 6,
\* 7 and 8 score 90 against product 1, product 9 scores 50 and product 4
\* scores 40.  Product 2 is alone in cluster 2, product 3 has a catalog row
\* and no embedding, product 4 an embedding and no catalog row.
MixedEmbeddings ==
    << EmbRow(1, 1, "A", 10, 5, FALSE), EmbRow(6, 1, "B", 8, 2, FALSE),
       EmbRow(5, 1, "A", 10, 5, TRUE),  EmbRow(2, 2, "B", 1, 1, FALSE),
       EmbRow(7, 1, "A", 9, 0, FALSE),  EmbRow(9, 1, "B", 5, 0, FALSE),
       EmbRow(8, 1, "A", 8, 2, TRUE),   EmbRow(4, 1, "B", 4, 0, FALSE) >>

MixedProducts ==
    << ProdRow(1, TV, Some(100), "A"), ProdRow(5, Some(<<>>), Some(100), "A"),
       ProdRow(6, TV, Some(80), "B"),  ProdRow(7, TV, Some(85), "A"),
       ProdRow(9, Some(<<" ", " ">>), Some(50), "B"),
       ProdRow(8, TV, Some(60), "A"),  ProdRow(2, TV, Some(100), "B"),
       ProdRow(3, TV, Some(100), "A") >>

\* the loaded snapshots: <<embeddings table, catalog>>
Snapshots == << <<ScenarioEmbeddings, ScenarioProducts>>,
                <<MixedEmbeddings, MixedProducts>> >>

\* A table with stored vectors the engine cannot use.  Every cluster has a
\* sound partition in source A, which holds the query products 1, 2 and 3.
\* In source B, cluster 1 holds a vector whose second component is no number
\* ("[8 x]"), cluster 2 holds vectors of two and of three components, and
\* cluster 3 holds vectors of three components only.
MalformedEmbeddings ==
    << EmbRow(1, 1, "A", 10, 5, FALSE), EmbRow(4, 1, "A", 9, 0, FALSE),
       [EmbRow(5, 1, "B", 8, 0, FALSE) EXCEPT
            !.normalized_embeddings = <<"[", "8", " ", "x", "]">>],
       EmbRow(6, 1, "B", 7, 1, FALSE),
       EmbRow(2, 2, "A", 10, 5, TRUE),  EmbRow(7, 2, "A", 8, 0, FALSE),
       EmbRow(8, 2, "B", 7, 1, FALSE),
       [EmbRow(9, 2, "B", 7, 1, FALSE) EXCEPT
            !.normalized_embeddings = <<"[", "7", " ", "1", " ", "2", "]">>],
       EmbRow(3, 3, "A", 10, 5, FALSE), EmbRow(10, 3, "A", 6, 0, FALSE),
       [EmbRow(11, 3, "B", 7, 1, FALSE) EXCEPT
            !.normalized_embeddings = <<"[", "7", " ", "1", " ", "2", "]">>],
       [EmbRow(12, 3, "B", 7, 1, FALSE) EXCEPT
            !.normalized_embeddings = <<"[", "5", " ", "1", " ", "2", "]">>] >>

MalformedProducts ==
    << ProdRow(1, TV, Some(100), "A"), ProdRow(2, TV, Some(100), "A"),
       ProdRow(3, TV, Some(100), "A"), ProdRow(4, TV, Some(90), "A"),
       ProdRow(7, TV, Some(90), "A"),  ProdRow(10, TV, Some(90), "A"),
       ProdRow(6, TV, Some(90), "B"),  ProdRow(8, TV, Some(90), "B") >>

\* every table pair a caller can pass: the loaded snapshots, then the
\* malformed one
Tables == Snapshots \o << <<MalformedEmbeddings, MalformedProducts>> >>

\* ------------------------------------------------------------------ inputs
ProductIds == 1..MaxPid
Counts == 1..MaxCount
MinScores == {0, 50}
default_sort == <<"score", "sale_price">>
default_ascending == <<FALSE, TRUE>>
\* <<sort, ascending>> pairs a caller passes: the default, and lists of
\* different lengths
SortConfigs == { <<default_sort, default_ascending>>,
                 <<default_sort, (<<FALSE>>)>> }

\* -------------------------------------------------------------------- state
VARIABLES
    snapshot,           \* which snapshot load_data_from_mongodb returned
    clusters_indexes,   \* self.clusters_indexes
    tieOrder,           \* how the build orders equal keys: "low" or "high"
    call,               \* the last call and its arguments
    result,             \* what the last call returned: [kind, rows]
    built,              \* how many indexes the last call constructed
    cache_before,       \* self.clusters_indexes when the last call began
    sessions            \* the calls in progress in concurrent sessions

vars == <<snapshot, clusters_indexes, tieOrder, call, result, built, cache_before,
          sessions>>

\* the tables the caller passes to the engine
df_embeddings == Tables[snapshot][1]
df_products == Tables[snapshot][2]

NoCall == [op |-> "none", product_id |-> 0, num_similar_products |-> 0, min_score |-> 0,
           only_best_price |-> FALSE, sort |-> <<>>, ascending |-> <<>>]

\* the script threads that share the engine of get_search_engine
Sessions == {"s1", "s2"}

\* a session that is not inside a call
Idle == [pc |-> "idle", product_id |-> 0, num_similar_products |-> 0, min_score |-> 0,
         cluster_id |-> 0, sources |-> <<>>, index_group |-> <<>>, index |-> NaN,
         kind |-> "none", rows |-> <<>>]

\* ProductSearchEngine(): an empty cache; the tables are one loaded snapshot.
Init ==
    /\ snapshot \in 1..Len(Snapshots)
    /\ clusters_indexes = <<>>
    /\ tieOrder \in {"low", "high"}
    /\ call = NoCall
    /\ result = [kind |-> "none", rows |-> <<>>]
    /\ built = 0
    /\ cache_before = <<>>
    /\ sessions = [t \in Sessions |-> Idle]

\* a call of get_similar_products(df, product_id, num_similar_products, min_score)
\* once the caller is done with the previous result
GetSimilarProducts ==
    /\ call = NoCall
    /\ \E product_id \in ProductIds, n \in Counts, min_score \in MinScores :
        \E r \in {get_similar_products(clusters_indexes, df_embeddings, product_id,
                                        n, min_score, tieOrder)} :
           /\ clusters_indexes' = r.cache
           /\ result' = [kind |-> r.kind, rows |-> r.rows]
           /\ built' = r.built
           /\ cache_before' = clusters_indexes
           /\ call' = [NoCall EXCEPT !.op = "get_similar_products",
                                     !.product_id = product_id,
                                     !.num_similar_products = n,
                                     !.min_score = min_score]
           /\ UNCHANGED <<snapshot, tieOrder, sessions>>

\* a call of get_similar_products_with_details(...)
GetSimilarProductsWithDetails ==
    /\ call = NoCall
    /\ \E product_id \in ProductIds, n \in Counts, min_score \in MinScores,
          only_best_price \in BOOLEAN, cfg \in SortConfigs :
        \E r \in {get_similar_products_with_details(
                       clusters_indexes, df_embeddings, df_products, product_id,
                       n, min_score, only_best_price, cfg[1], cfg[2], tieOrder)} :
           /\ clusters_indexes' = r.cache
           /\ result' = [kind |-> r.kind, rows |-> r.rows]
           /\ built' = r.built
           /\ cache_before' = clusters_indexes
           /\ call' = [op |-> "get_similar_products_with_details",
                       product_id |-> product_id, num_similar_products |-> n,
                       min_score |-> min_score, only_best_price |-> only_best_price,
                       sort |-> cfg[1], ascending |-> cfg[2]]
           /\ UNCHANGED <<snapshot, tieOrder, sessions>>

\* the caller has shown the returned value (or the error) and the script run
\* ends; the engine and its cache stay.
HandleResult ==
    /\ call # NoCall
    /\ call' = NoCall
    /\ result' = [kind |-> "none", rows |-> <<>>]
    /\ built' = 0
    /\ cache_before' = clusters_indexes
    /\ UNCHANGED <<snapshot, clusters_indexes, tieOrder, sessions>>

Next == GetSimilarProducts \/ GetSimilarProductsWithDetails \/ HandleResult

Spec == Init /\ [][Next]_vars

\* load_data_from_mongodb is cached for an hour (ttl=3600) while the engine
\* of get_search_engine lives as long as the process: after the hour the
\* same engine is handed the tables of another snapshot.  The tables are
\* loaded at the start of a script run, before its search.
Reload ==
    /\ call = NoCall
    /\ snapshot' \in (1..Len(Snapshots)) \ {snapshot}
    /\ UNCHANGED <<clusters_indexes, tieOrder, call, result, built, cache_before, sessions>>

NextReload == Next \/ Reload

SpecReload == Init /\ [][NextReload]_vars

\* ------------------------------------------------------ concurrent sessions
\* A session runs get_similar_products on the shared engine in steps.  The
\* engine takes no lock; the steps are cut where a call reads or writes
\* self.clusters_indexes (the scan of get_cached_index, which ends at the
\* first hit or at the end of the list as it is then, and list.append).
\* sources holds the sources the loop of get_cluster_group_by_source has
\* still to visit, index the index the session is building.  A call's
\* num_similar_products and min_score are first read at lines 151 and 165;
\* the model draws them there, so that a session that has not reached its
\* searches is one state whatever these two arguments are.
SessionUnchanged == UNCHANGED <<snapshot, tieOrder, call, result, built, cache_before>>

\* lines 132 and 75-81: the call begins; an unknown product returns None.
SessionBegin(t) ==
    /\ sessions[t].pc = "idle"
    /\ \E product_id \in ProductIds :
          LET pc == get_product_cluster(df_embeddings, product_id) IN
          sessions' = [sessions EXCEPT ![t] =
              IF ~pc.found
              THEN [Idle EXCEPT !.pc = "done", !.product_id = product_id]
              ELSE [Idle EXCEPT !.pc = "lookup", !.product_id = product_id,
                                !.cluster_id = pc.cluster_id,
                                !.sources = get_clusters_group_by_source(pc.df_clusters)]]
    /\ UNCHANGED clusters_indexes
    /\ SessionUnchanged

\* the partition of the source a session is visiting
SessionPartition(t) ==
    get_group(get_product_cluster(df_embeddings, sessions[t].product_id).df_clusters,
              Head(sessions[t].sources))

\* where a session goes after the source it is visiting
AfterSource(t) == IF Tail(sessions[t].sources) = <<>> THEN "search" ELSE "lookup"

\* a miss that puts the new index into the cache before its vectors are added
SessionLookup_publishing(t) ==
    /\ sessions[t].pc = "lookup"
    /\ LET me == sessions[t]
           embeddings == cluster_embeddings(SessionPartition(t))
           cached == get_cached_index(clusters_indexes, me.cluster_id, Head(me.sources))
       IN IF ~IsMatrix(embeddings)
          THEN /\ sessions' = [sessions EXCEPT ![t].pc = "done", ![t].kind = "error"]
               /\ UNCHANGED clusters_indexes
          ELSE IF notna(cached)
          THEN /\ sessions' = [sessions EXCEPT
                      ![t].index_group = Append(@, [index |-> cached[1],
                                                    source |-> Head(me.sources),
                                                    data |-> SessionPartition(t)]),
                      ![t].sources = Tail(@),
                      ![t].pc = AfterSource(t)]
               /\ UNCHANGED clusters_indexes
          ELSE /\ sessions' = [sessions EXCEPT
                      ![t].index = Some(new_index(Len(embeddings[1]))),
                      ![t].pc = "add"]
               /\ clusters_indexes' = cache_append(clusters_indexes,
                      [source |-> Head(me.sources), cluster_id |-> me.cluster_id,
                       index |-> new_index(Len(embeddings[1]))])
    /\ SessionUnchanged

\* lines 84-102 for the next source: the vectors are parsed and the cache is
\* scanned; a hit joins the index group (lines 94-100), a miss creates the
\* index of line 102, still without vectors and known to this session only.
SessionLookup(t) ==
    /\ sessions[t].pc = "lookup"
    /\ LET me == sessions[t]
           embeddings == cluster_embeddings(SessionPartition(t))
           cached == get_cached_index(clusters_indexes, me.cluster_id, Head(me.sources))
       IN IF ~IsMatrix(embeddings)
          THEN sessions' = [sessions EXCEPT ![t].pc = "done", ![t].kind = "error"]
          ELSE IF notna(cached)
          THEN sessions' = [sessions EXCEPT
                   ![t].index_group = Append(@, [index |-> cached[1],
                                                 source |-> Head(me.sources),
                                                 data |-> SessionPartition(t)]),
                   ![t].sources = Tail(@),
                   ![t].pc = AfterSource(t)]
          ELSE sessions' = [sessions EXCEPT
                   ![t].index = Some(new_index(Len(embeddings[1]))),
                   ![t].pc = "add"]
    /\ UNCHANGED clusters_indexes
    /\ SessionUnchanged

\* line 103: index.add(cluster_embeddings) on the session's own index
SessionAdd(t) ==
    /\ sessions[t].pc = "add"
    /\ sessions' = [sessions EXCEPT
           ![t].index = Some(index_add(@[1], cluster_embeddings(SessionPartition(t)))),
           ![t].pc = "publish"]
    /\ UNCHANGED clusters_indexes
    /\ SessionUnchanged

\* a publication that, finding the key already cached by another session,
\* adds its vectors to the cached index
SessionPublish_merging(t) ==
    /\ sessions[t].pc = "publish"
    /\ LET me == sessions[t]
           hits == {i \in 1..Len(clusters_indexes) :
                       /\ clusters_indexes[i].cluster_id = me.cluster_id
                       /\ clusters_indexes[i].source = Head(me.sources)}
       IN /\ sessions' = [sessions EXCEPT
                 ![t].index_group = Append(@, [index |-> me.index[1],
                                               source |-> Head(me.sources),
                                               data |-> SessionPartition(t)]),
                 ![t].index = NaN,
                 ![t].sources = Tail(@),
                 ![t].pc = AfterSource(t)]
          /\ clusters_indexes' =
                 IF hits = {}
                 THEN cache_append(clusters_indexes,
                          [source |-> Head(me.sources), cluster_id |-> me.cluster_id,
                           index |-> me.index[1]])
                 ELSE [i \in 1..Len(clusters_indexes) |->
                          IF i \in hits
                          THEN [clusters_indexes[i] EXCEPT
                                   !.index = index_add(@, me.index[1].xb)]
                          ELSE clusters_indexes[i]]
    /\ SessionUnchanged

\* lines 104-113: the finished index joins the index group and is appended
\* to the cache, whatever the cache holds by now.
SessionPublish(t) ==
    /\ sessions[t].pc = "publish"
    /\ LET me == sessions[t] IN
       /\ sessions' = [sessions EXCEPT
              ![t].index_group = Append(@, [index |-> me.index[1],
                                            source |-> Head(me.sources),
                                            data |-> SessionPartition(t)]),
              ![t].index = NaN,
              ![t].sources = Tail(@),
              ![t].pc = AfterSource(t)]
       /\ clusters_indexes' = cache_append(clusters_indexes,
              [source |-> Head(me.sources), cluster_id |-> me.cluster_id,
               index |-> me.index[1]])
    /\ SessionUnchanged

\* lines 138-177: the searches over the session's index group
SessionSearch(t) ==
    /\ sessions[t].pc = "search"
    /\ LET me == sessions[t] IN
       \E n \in Counts, min_score \in MinScores :
       \E found \in {products_found_loop(me.index_group, df_embeddings, me.product_id,
                          n, min_score, tieOrder)} :
          sessions' = [sessions EXCEPT
              ![t].pc = "done",
              ![t].num_similar_products = n,
              ![t].min_score = min_score,
              ![t].kind = IF found.ok THEN "frame" ELSE "error",
              ![t].rows = IF found.ok THEN found.rows ELSE <<>>,
              ![t].index_group = <<>>]
    /\ UNCHANGED clusters_indexes
    /\ SessionUnchanged

\* the call has returned; the session is free for its next call
SessionReturn(t) ==
    /\ sessions[t].pc = "done"
    /\ sessions' = [sessions EXCEPT ![t] = Idle]
    /\ UNCHANGED clusters_indexes
    /\ SessionUnchanged

NextSessions ==
    \E t \in Sessions :
        \/ SessionBegin(t)
        \/ SessionLookup(t)
        \/ SessionAdd(t)
        \/ SessionPublish(t)
        \/ SessionSearch(t)
        \/ SessionReturn(t)

SpecSessions == Init /\ [][NextSessions]_vars

\* the same engine when the embeddings collection holds malformed vectors
InitMalformed ==
    /\ snapshot = Len(Tables)
    /\ clusters_indexes = <<>>
    /\ tieOrder \in {"low", "high"}
    /\ call = NoCall
    /\ result = [kind |-> "none", rows |-> <<>>]
    /\ built = 0
    /\ cache_before = <<>>
    /\ sessions = [t \in Sessions |-> Idle]

SpecMalformed == InitMalformed /\ [][Next]_vars

\* ------------------------------------------------------- claim vocabulary
IsSearch == call.op = "get_similar_products"
IsDetails == call.op = "get_similar_products_with_details"
InEmbeddings(product_id) ==
    \E i \in 1..Len(df_embeddings) : df_embeddings[i].product_id = product_id
InCatalog(product_id) ==
    \E i \in 1..Len(df_products) : df_products[i].product_id = product_id
Min(a, b) == IF a < b THEN a ELSE b

\* the embedding rows of the query product's cluster
QueryCluster ==
    LET own == SelectSeq(df_embeddings, LAMBDA e : e.product_id = call.product_id) IN
    IF own = <<>> THEN <<>>
    ELSE SelectSeq(df_embeddings, LAMBDA e : e.cluster_id = own[1].cluster_id)

\* inner product of an embedding row with the query product's vector
ScoreOf(e) ==
    Dot(ParseEmbedding(e.normalized_embeddings), query_vector(df_embeddings, call.product_id))

\* the rows of one source that the claims call qualifying: in the query's
\* cluster, not the query product, scoring at least min_score
Qualifying(source) ==
    SelectSeq(QueryCluster, LAMBDA e : /\ e.data_source = source
                                       /\ e.product_id # call.product_id
                                       /\ ScoreOf(e) >= call.min_score)

\* the returned rows of one source
RowsOf(source) == SelectSeq(result.rows, LAMBDA r : r.data_source = source)

\* what the last call returns on a new engine (empty cache) over the same
\* snapshot
Fresh ==
    IF IsSearch
    THEN get_similar_products(<<>>, df_embeddings, call.product_id,
                              call.num_similar_products, call.min_score, tieOrder)
    ELSE get_similar_products_with_details(<<>>, df_embeddings, df_products,
             call.product_id, call.num_similar_products, call.min_score,
             call.only_best_price, call.sort, call.ascending, tieOrder)

\* ------------------------------------------------------------------ claims
\* C1: over a fixed snapshot, whatever searches came before, a call returns
\* the same rows in the same order (and the same kind of value) as the same
\* call on a new engine with an empty index cache.
C1_CacheTransparent ==
    call.op # "none" => result = [kind |-> Fresh.kind, rows |-> Fresh.rows]

\* C1 witness: a search answered entirely from cached indexes, on an engine
\* whose cache also holds another cluster, returned rows.
C1_Witness ==
    /\ call.op # "none" /\ built = 0 /\ Len(clusters_indexes) = 3
    /\ result.kind = "frame" /\ result.rows # <<>>

\* C2: no returned row of either entry point has the query product's id.
C2_SelfExcluded ==
    result.kind = "frame" =>
        \A i \in 1..Len(result.rows) : result.rows[i].product_id # call.product_id

\* C2 witness: a search whose own partition (the one holding the query
\* product) contributed rows.
C2_Witness ==
    /\ IsSearch /\ result.kind = "frame"
    /\ \E i \in 1..Len(result.rows), j \in 1..Len(df_embeddings) :
          /\ df_embeddings[j].product_id = call.product_id
          /\ result.rows[i].data_source = df_embeddings[j].data_source

\* C3: every row get_similar_products returns scores at least min_score, and
\* a candidate scoring exactly min_score is returned unless its source
\* already fills the per-source cap.
C3_MinScore ==
    IsSearch /\ result.kind = "frame" =>
        /\ \A i \in 1..Len(result.rows) : result.rows[i].score >= call.min_score
        /\ \A j \in 1..Len(QueryCluster) :
              LET e == QueryCluster[j] IN
              e.product_id # call.product_id /\ ScoreOf(e) = call.min_score =>
                  \/ \E i \in 1..Len(result.rows) :
                        /\ result.rows[i].product_id = e.product_id
                        /\ result.rows[i].score = call.min_score
                  \/ Len(RowsOf(e.data_source)) = call.num_similar_products

\* C3 witness: a returned row scores exactly min_score while a candidate of
\* the cluster scores below it.
C3_Witness ==
    /\ IsSearch /\ result.kind = "frame"
    /\ \E i \in 1..Len(result.rows) : result.rows[i].score = call.min_score
    /\ \E j \in 1..Len(QueryCluster) : ScoreOf(QueryCluster[j]) < call.min_score

\* C4: in the result of either entry point no source has more than
\* num_similar_products rows.
C4_PerSourceCap ==
    result.kind = "frame" =>
        \A s \in Range(DataSources) : Len(RowsOf(s)) <= call.num_similar_products

\* C4 witness: a detailed result holds exactly num_similar_products rows of a
\* source that has more qualifying candidates than that.
C4_Witness ==
    /\ IsDetails /\ result.kind = "frame"
    /\ \E s \in Range(DataSources) :
          /\ Len(RowsOf(s)) = call.num_similar_products
          /\ Len(Qualifying(s)) > call.num_similar_products

\* C5: per source, get_similar_products returns min(count, q) of the q
\* qualifying rows, each once with its score, best first, and no qualifying
\* row left out scores higher than a returned one; the scenario of the
\* specification (count 3, min_score 0.5) yields A:0.9, A:0.8, A:0.7, B:0.95.
C5_TopPerSource ==
    IsSearch /\ result.kind = "frame" =>
        /\ \A s \in Range(DataSources) :
              LET Q == Qualifying(s)
                  R == RowsOf(s)
              IN /\ Len(R) = Min(call.num_similar_products, Len(Q))
                 /\ \A i \in 1..Len(R) : \E j \in 1..Len(Q) :
                       Q[j].product_id = R[i].product_id /\ ScoreOf(Q[j]) = R[i].score
                 /\ \A i, j \in 1..Len(R) :
                       i < j => R[i].product_id # R[j].product_id
                                /\ R[i].score >= R[j].score
                 /\ \A j \in 1..Len(Q) :
                       (\A i \in 1..Len(R) : R[i].product_id # Q[j].product_id) =>
                           \A i \in 1..Len(R) : R[i].score >= ScoreOf(Q[j])
        /\ (snapshot = 1 /\ call.product_id = 1 /\ call.num_similar_products = 3
            /\ call.min_score = 50) =>
               [i \in 1..Len(result.rows) |->
                   <<result.rows[i].data_source, result.rows[i].score>>]
               = << <<"A", 90>>, <<"A", 80>>, <<"A", 70>>, <<"B", 95>> >>

\* C5 witness: the scenario's search, where source A has four qualifying
\* rows besides the query product and count is 3.
C5_Witness ==
    /\ IsSearch /\ snapshot = 1 /\ call.product_id = 1
    /\ call.num_similar_products = 3 /\ call.min_score = 50
    /\ Len(Qualifying("A")) = 4 /\ Len(RowsOf("A")) = 3

\* the result of the last call's arguments with only_best_price disabled, on
\* the engine as it is now
WithoutPriceFilter ==
    get_similar_products_with_details(clusters_indexes, df_embeddings, df_products,
        call.product_id, call.num_similar_products, call.min_score,
        FALSE, call.sort, call.ascending, tieOrder)

\* the catalog price of the query product (NaN when it has none)
QueryPrice ==
    SelectSeq(df_products, LAMBDA r : r.product_id = call.product_id)[1].sale_price

\* C6: with only_best_price enabled every returned row is priced strictly
\* below the query product, and every returned row is also returned by the
\* same call with only_best_price disabled.
C6_BestPrice ==
    IsDetails /\ call.only_best_price /\ result.kind = "frame" =>
        /\ \A i \in 1..Len(result.rows) :
              /\ notna(result.rows[i].sale_price) /\ notna(QueryPrice)
              /\ result.rows[i].sale_price[1] < QueryPrice[1]
        /\ \A i \in 1..Len(result.rows) :
              result.rows[i] \in Range(WithoutPriceFilter.rows)

\* C6 witness: a price-filtered search returned rows, and the unfiltered one
\* returns a row priced exactly like the query product.
C6_Witness ==
    /\ IsDetails /\ call.only_best_price /\ result.kind = "frame"
    /\ result.rows # <<>>
    /\ \E i \in 1..Len(WithoutPriceFilter.rows) :
          WithoutPriceFilter.rows[i].sale_price = QueryPrice

Whitespace == {" ", "\t", "\n"}

\* C7: every row of a detailed result has a name that is present and holds a
\* character other than whitespace, and a price that is present and
\* positive.
C7_ValidRows ==
    IsDetails /\ result.kind = "frame" =>
        \A i \in 1..Len(result.rows) :
            LET r == result.rows[i] IN
            /\ notna(r.product_name)
            /\ \E c \in 1..Len(r.product_name[1]) : r.product_name[1][c] \notin Whitespace
            /\ notna(r.sale_price)
            /\ r.sale_price[1] > 0

\* C7 witness: a detailed search returned rows although one of its
\* candidates has no catalog row and another a blank name.
C7_Witness ==
    /\ IsDetails /\ result.kind = "frame" /\ result.rows # <<>>
    /\ LET found == get_similar_products(clusters_indexes, df_embeddings,
                        call.product_id, call.num_similar_products,
                        call.min_score, tieOrder).rows
       IN /\ \E i \in 1..Len(found) : ~InCatalog(found[i].product_id)
          /\ \E i \in 1..Len(found), j \in 1..Len(df_products) :
                /\ df_products[j].product_id = found[i].product_id
                /\ df_products[j].product_name = Some(<<" ", " ">>)

\* C8: under the default sort configuration the rows of a detailed result
\* are ordered by score descending and, among equal scores, by price
\* ascending.
C8_DefaultOrder ==
    (/\ IsDetails /\ result.kind = "frame"
     /\ call.sort = default_sort /\ call.ascending = default_ascending) =>
        \A i, j \in 1..Len(result.rows) :
            i < j => \/ result.rows[i].score > result.rows[j].score
                     \/ /\ result.rows[i].score = result.rows[j].score
                        /\ result.rows[i].sale_price[1] <= result.rows[j].sale_price[1]

\* C8 witness: two rows of equal score and different price, the cheaper one
\* first although its source comes later in the per-source concatenation.
C8_Witness ==
    /\ IsDetails /\ result.kind = "frame"
    /\ call.sort = default_sort /\ call.ascending = default_ascending
    /\ \E i, j \in 1..Len(result.rows) :
          /\ i < j
          /\ result.rows[i].score = result.rows[j].score
          /\ result.rows[i].sale_price[1] < result.rows[j].sale_price[1]
          /\ result.rows[i].data_source = "B" /\ result.rows[j].data_source = "A"

\* C9: get_similar_products_with_details returns None exactly when the query
\* product has no catalog row; with sort lists of one length a product of
\* the catalog gets a DataFrame, possibly empty.
C9_NotFoundIffNoCatalogRow ==
    IsDetails =>
        /\ result.kind = "none" <=> ~InCatalog(call.product_id)
        /\ InCatalog(call.product_id) /\ Len(call.sort) = Len(call.ascending) =>
               result.kind = "frame"

\* C9 witness: a product of the catalog without an embedding got an empty
\* DataFrame.
C9_Witness ==
    /\ IsDetails /\ InCatalog(call.product_id) /\ ~InEmbeddings(call.product_id)
    /\ result = [kind |-> "frame", rows |-> <<>>]

\* the query product is the only member of its cluster
AloneInCluster == Len(QueryCluster) = 1

C11_RejectedBeforeSearch ==
    IsDetails /\ Len(call.sort) # Len(call.ascending) =>
        /\ result.kind = "error"
        /\ built = 0
        /\ clusters_indexes = cache_before

\* C17: a search that ends in not-found (get_similar_products for a product
\* without an embedding, get_similar_products_with_details for a product
\* without a catalog row) returns None, builds no index and leaves the index
\* cache as it was when the call began.
C17_NotFoundKeepsCache ==
    (\/ IsSearch /\ ~InEmbeddings(call.product_id)
     \/ IsDetails /\ ~InCatalog(call.product_id)) =>
        /\ result.kind = "none"
        /\ built = 0
        /\ clusters_indexes = cache_before

\* C17 witness: a detailed search for a product that has an embedding and no
\* catalog row returned None on an engine whose cache is still empty.
C17_Witness ==
    /\ IsDetails /\ ~InCatalog(call.product_id) /\ InEmbeddings(call.product_id)
    /\ result.kind = "none" /\ clusters_indexes = <<>>

\* the (cluster_id, source) keys of a cache
Keys(cache) == {<<cache[i].cluster_id, cache[i].source>> : i \in 1..Len(cache)}

\* the keys of the query product's cluster: one per source present in it
ClusterKeys ==
    {<<QueryCluster[i].cluster_id, QueryCluster[i].data_source>> :
        i \in 1..Len(QueryCluster)}

\* C18: after a completed get_similar_products the cache is the cache as it
\* was before, followed by one entry for every key of the query's cluster
\* that was missing; the call built exactly those indexes (none when all
\* keys were present) and no key occurs twice.
C18_ClusterCached ==
    IsSearch /\ result.kind = "frame" =>
        /\ Len(cache_before) <= Len(clusters_indexes)
        /\ SubSeq(clusters_indexes, 1, Len(cache_before)) = cache_before
        /\ Keys(clusters_indexes) = Keys(cache_before) \cup ClusterKeys
        /\ Cardinality(Keys(clusters_indexes)) = Len(clusters_indexes)
        /\ built = Len(clusters_indexes) - Len(cache_before)
        /\ built = Cardinality(ClusterKeys \ Keys(cache_before))
        /\ ClusterKeys \subseteq Keys(cache_before) =>
               built = 0 /\ Len(clusters_indexes) = Len(cache_before)

\* C18 witness: a search that returned no row built the one index of its
\* cluster on top of a cache that already held another cluster.
C18_Witness ==
    /\ IsSearch /\ result = [kind |-> "frame", rows |-> <<>>]
    /\ built = 1 /\ cache_before # <<>>
    /\ Len(clusters_indexes) = Len(cache_before) + 1

\* a source partition of the query's cluster cannot be built or searched: its
\* vectors form no matrix, or have another length than the query vector
FailingPartition(source) ==
    LET part == get_group(QueryCluster, source)
        vectors == cluster_embeddings(part)
    IN /\ part # <<>>
       /\ \/ ~IsMatrix(vectors)
          \/ Len(vectors[1]) # Len(query_vector(df_embeddings, call.product_id))

\* C12 as stated: when a source partition of the query's cluster fails to
\* build, get_similar_products still returns a DataFrame, holding for every
\* other source its min(count, q) qualifying rows.
C12_PartitionFailureIsolated ==
    (/\ IsSearch /\ InEmbeddings(call.product_id)
     /\ \E s \in Range(DataSources) : FailingPartition(s)) =>
        /\ result.kind = "frame"
        /\ \A s \in Range(DataSources) :
              ~FailingPartition(s) =>
                  Len(RowsOf(s)) = Min(call.num_similar_products, Len(Qualifying(s)))

\* the cached index of the key of entry e differs from the index a build over
\* the tables passed now would yield
Stale(e) ==
    LET part == SelectSeq(df_embeddings, LAMBDA r : /\ r.cluster_id = e.cluster_id
                                                    /\ r.data_source = e.source)
    IN part = <<>> \/ e.index # IndexFlatIP(cluster_embeddings(part))

\* C16: the cache after a call begins with the cache as it was before the
\* call, entry for entry (nothing removed, replaced or reordered), and a
\* lookup of every key that was present returns the index it returned
\* before, which is the first one inserted for the key; this also holds
\* when the tables have been reloaded in between.
C16_AppendOnly ==
    /\ Len(cache_before) <= Len(clusters_indexes)
    /\ SubSeq(clusters_indexes, 1, Len(cache_before)) = cache_before
    /\ \A i \in 1..Len(cache_before) :
          LET e == cache_before[i]
              first == CHOOSE j \in 1..Len(cache_before) :
                          /\ cache_before[j].cluster_id = e.cluster_id
                          /\ cache_before[j].source = e.source
                          /\ \A k \in 1..(j - 1) :
                                 \/ cache_before[k].cluster_id # e.cluster_id
                                 \/ cache_before[k].source # e.source
          IN get_cached_index(clusters_indexes, e.cluster_id, e.source)
                 = Some(cache_before[first].index)

\* C16 witness: after a reload, a search of a cluster whose cached indexes
\* were built from the earlier table built nothing and left the cache as it
\* was, stale entries included.
C16_Witness ==
    /\ IsSearch /\ result.kind # "none" /\ built = 0
    /\ clusters_indexes = cache_before
    /\ \E i \in 1..Len(clusters_indexes) :
          /\ clusters_indexes[i].cluster_id = QueryCluster[1].cluster_id
          /\ Stale(clusters_indexes[i])

\* C13 as stated: the cache never holds two entries of one (cluster_id,
\* source) key, also while sessions search concurrently.
C13_AtMostOneEntryPerKey ==
    Cardinality(Keys(clusters_indexes)) = Len(clusters_indexes)

\* the vectors of the partition of a key in the tables passed now
PartitionVectors(cluster_id, source) ==
    cluster_embeddings(SelectSeq(df_embeddings, LAMBDA r : /\ r.cluster_id = cluster_id
                                                           /\ r.data_source = source))

\* the cluster ids of the embeddings table
ClusterIds == {df_embeddings[i].cluster_id : i \in 1..Len(df_embeddings)}

\* C14: whatever the sessions are doing, a lookup of any key is a miss or
\* returns an index that holds all vectors of the key's partition.
C14_NoPartialIndexVisible ==
    \A c \in ClusterIds, s \in Range(DataSources) :
        LET cached == get_cached_index(clusters_indexes, c, s) IN
        notna(cached) => cached[1].xb = PartitionVectors(c, s)

\* C14 witness: one session holds a new index without vectors for the key
\* another session is about to look up, and the lookup is a miss.
C14_Witness ==
    \E t, u \in Sessions :
        /\ t # u
        /\ sessions[t].pc = "add" /\ sessions[t].index = Some(new_index(2))
        /\ sessions[u].pc = "lookup"
        /\ sessions[u].cluster_id = sessions[t].cluster_id
        /\ Head(sessions[u].sources) = Head(sessions[t].sources)
        /\ get_cached_index(clusters_indexes, sessions[u].cluster_id,
                            Head(sessions[u].sources)) = NaN

\* what a session's call returns when it runs alone on a new engine
Alone(t) ==
    get_similar_products(<<>>, df_embeddings, sessions[t].product_id,
                         sessions[t].num_similar_products, sessions[t].min_score,
                         tieOrder)

\* C15: in every interleaving a finished search has the result it has when
\* run alone, every cache entry holds the index built from its partition
\* (so two entries of one key hold identical indexes), and a lookup of a
\* cached key returns that index.
C15_ConcurrentMissHarmless ==
    /\ \A t \in Sessions :
          sessions[t].pc = "done" =>
              /\ sessions[t].kind = Alone(t).kind
              /\ sessions[t].rows = Alone(t).rows
    /\ \A i \in 1..Len(clusters_indexes) :
          LET e == clusters_indexes[i] IN
          /\ e.index = IndexFlatIP(PartitionVectors(e.cluster_id, e.source))
          /\ get_cached_index(clusters_indexes, e.cluster_id, e.source) = Some(e.index)

\* C15 witness: both sessions missed the same key and both inserted an index
\* for it; both searches have returned rows.
C15_Witness ==
    /\ \E i, j \in 1..Len(clusters_indexes) :
          /\ i < j
          /\ clusters_indexes[i].cluster_id = clusters_indexes[j].cluster_id
          /\ clusters_indexes[i].source = clusters_indexes[j].source
    /\ \A t \in Sessions :
          /\ sessions[t].pc = "done" /\ sessions[t].kind = "frame"
          /\ sessions[t].rows # <<>>

====
